---- MODULE Spec2Model ----
(***************************************************************************)
(* Runtime type algebra of the Move VM (FatType / FatStructType):          *)
(* substitution, type-tag derivation, layout and kind derivation, the      *)
(* resource classifier, the formatter and the layout bridge.               *)
(*                                                                         *)
(* The functions are pure; the state machine builds a type value bottom-up *)
(* (as the loader, or the proptest strategy, does) and then applies one    *)
(* operation to it, recording the operation, its arguments and its result. *)
(*                                                                         *)
(* The module also holds ValidatorConfig::execute of the management tool,  *)
(* as a process over a local and a remote storage (SpecExecute).           *)
(***************************************************************************)
EXTENDS Integers, Sequences, FiniteSets, TLC

VARIABLES ty, op, ty_args, res

\* ValidatorConfig::execute: its position, the remote backend of the command
\* line, the two storages, the locals of execute and what it returned
VARIABLES pc, backends_remote, local, remote, owner_account,
          validator_config_script, validator_config_tx, ret

type_vars == <<ty, op, ty_args, res>>

config_vars == <<pc, backends_remote, local, remote, owner_account,
                 validator_config_script, validator_config_tx, ret>>

vars == <<ty, op, ty_args, res, pc, backends_remote, local, remote, owner_account,
          validator_config_script, validator_config_tx, ret>>

(***************************************************************************)
(* Bounds of the model.                                                    *)
(***************************************************************************)
\* nodes of a type tree the canonicalisation specification builds
MaxSize == 4
\* nodes of a type tree the substitution specification builds
MaxSubstSize == 3
\* nodes of a type tree the composition specification builds
MaxComposeSize == 2
\* largest type-parameter index that occurs
MaxTyParam == 1
\* longest type-argument list of a struct descriptor
MaxStructTyArgs == 1
\* longest field list of a struct descriptor
MaxFields == 2
\* longest argument list handed to subst
MaxArgs == 2

(***************************************************************************)
(* StatusCode values used by types.rs                                      *)
(***************************************************************************)
UNKNOWN_INVARIANT_VIOLATION_ERROR == "UNKNOWN_INVARIANT_VIOLATION_ERROR"
ABORT_TYPE_MISMATCH_ERROR == "ABORT_TYPE_MISMATCH_ERROR"

(***************************************************************************)
(* enum FatType and struct FatStructType                                   *)
(***************************************************************************)
Bool == [tag |-> "Bool"]
U8 == [tag |-> "U8"]
U64 == [tag |-> "U64"]
U128 == [tag |-> "U128"]
Address == [tag |-> "Address"]
Signer == [tag |-> "Signer"]
Vector(t) == [tag |-> "Vector", elem |-> t]
Struct(s) == [tag |-> "Struct", s |-> s]
Reference(t) == [tag |-> "Reference", elem |-> t]
MutableReference(t) == [tag |-> "MutableReference", elem |-> t]
TyParam(i) == [tag |-> "TyParam", idx |-> i]

FatStructType(address, module, name, is_res, targs, layout) ==
    [address |-> address, module |-> module, name |-> name,
     is_resource |-> is_res, ty_args |-> targs, layout |-> layout]

Primitives == {Bool, U8, U64, U128, Address, Signer}

\* PartialVMResult<T>
Ok(v) == [ok |-> TRUE, val |-> v]
Err(status, message) == [ok |-> FALSE, status |-> status, message |-> message]

\* Iterator::collect::<PartialVMResult<Vec<_>>>(): the values when every
\* element is Ok, otherwise the first Err in iteration order.
Collect(rs) ==
    IF \A i \in 1..Len(rs) : rs[i].ok
    THEN Ok([i \in 1..Len(rs) |-> rs[i].val])
    ELSE rs[CHOOSE i \in 1..Len(rs) :
                /\ ~rs[i].ok
                /\ \A j \in 1..(i - 1) : rs[j].ok]

RECURSIVE Size(_)
RECURSIVE SumSizes(_)
\* number of nodes of a type tree
Size(t) ==
    CASE t.tag \in {"Vector", "Reference", "MutableReference"} -> 1 + Size(t.elem)
      [] t.tag = "Struct" -> 1 + SumSizes(t.s.ty_args) + SumSizes(t.s.layout)
      [] OTHER -> 1

SumSizes(ts) == IF ts = <<>> THEN 0 ELSE Size(Head(ts)) + SumSizes(Tail(ts))

(***************************************************************************)
(* Values of move_core_types the functions return.                         *)
(***************************************************************************)
Resource == "Resource"
Copyable == "Copyable"

\* MoveKindInfo
KBase(k) == [tag |-> "Base", kind |-> k]
KVector(k, inner) == [tag |-> "Vector", kind |-> k, inner |-> inner]
KStruct(k, field_kinds) == [tag |-> "Struct", kind |-> k, fields |-> field_kinds]

\* MoveKindInfo::kind(): the kind at the top level of a kind tree
MoveKindInfo_kind(k) == k.kind

\* MoveTypeLayout and MoveStructLayout
LLeaf(name) == [tag |-> name]
LVector(l) == [tag |-> "Vector", elem |-> l]
LStruct(sl) == [tag |-> "Struct", s |-> sl]
MoveStructLayout_new(field_layouts) == [fields |-> field_layouts]

\* TypeTag and StructTag
TagLeaf(name) == [tag |-> name]
TagVector(g) == [tag |-> "Vector", elem |-> g]
TagStruct(st) == [tag |-> "Struct", s |-> st]
StructTag(address, module, name, type_params) ==
    [address |-> address, module |-> module, name |-> name,
     type_params |-> type_params]

\* debug_write!(buf, ...): appends one formatted piece to the buffer
debug_write(buf, piece) == Append(buf, piece)

RECURSIVE FatType_subst(_, _)
RECURSIVE FatStructType_subst(_, _)
RECURSIVE struct_tag(_)
RECURSIVE type_tag(_)
RECURSIVE FatStructType_layout_and_kind_info(_)
RECURSIVE FatType_layout_and_kind_info(_)
RECURSIVE is_resource(_)
RECURSIVE FatStructType_debug_print(_, _)
RECURSIVE FatType_debug_print(_, _)
RECURSIVE debug_print_rest(_, _)
RECURSIVE FatStructType_try_into(_)
RECURSIVE FatType_try_into(_)

(***************************************************************************)
(* FatStructType::subst and FatType::subst                                 *)
(***************************************************************************)
\* subst that substitutes the type arguments and copies the fields as they are
FatStructType_subst_args_only(s, targs) ==
    LET new_ty_args == Collect([i \in 1..Len(s.ty_args) |->
                                    FatType_subst(s.ty_args[i], targs)])
    IN  IF ~new_ty_args.ok THEN new_ty_args
        ELSE Ok(FatStructType(s.address, s.module, s.name, s.is_resource,
                              new_ty_args.val, s.layout))

\* subst with the results of the two lists stored in each other's place
FatStructType_subst_swapped(s, targs) ==
    LET new_ty_args == Collect([i \in 1..Len(s.ty_args) |->
                                    FatType_subst(s.ty_args[i], targs)])
        new_layout == Collect([i \in 1..Len(s.layout) |->
                                    FatType_subst(s.layout[i], targs)])
    IN  IF ~new_ty_args.ok THEN new_ty_args
        ELSE IF ~new_layout.ok THEN new_layout
        ELSE Ok(FatStructType(s.address, s.module, s.name, s.is_resource,
                              new_layout.val, new_ty_args.val))

FatStructType_subst(s, targs) ==
    LET new_ty_args == Collect([i \in 1..Len(s.ty_args) |->
                                    FatType_subst(s.ty_args[i], targs)])
        new_layout == Collect([i \in 1..Len(s.layout) |->
                                    FatType_subst(s.layout[i], targs)])
    IN  IF ~new_ty_args.ok THEN new_ty_args
        ELSE IF ~new_layout.ok THEN new_layout
        ELSE Ok(FatStructType(s.address, s.module, s.name, s.is_resource,
                              new_ty_args.val, new_layout.val))

\* the Err of the TyParam arm: the message carries the length and the index
SubstErr(len, idx) ==
    [ok |-> FALSE, status |-> UNKNOWN_INVARIANT_VIOLATION_ERROR,
     message |-> "fat type substitution failed: index out of bounds",
     len |-> len, idx |-> idx]

\* subst that leaves the referent of a reference as it is
FatType_subst_skip_referent(t, targs) ==
    CASE t.tag = "TyParam" ->
            IF t.idx < Len(targs) THEN Ok(targs[t.idx + 1])
            ELSE SubstErr(Len(targs), t.idx)
      [] t.tag \in {"Bool", "U8", "U64", "U128", "Address", "Signer"} -> Ok(t)
      [] t.tag = "Vector" ->
            LET r == FatType_subst(t.elem, targs)
            IN  IF r.ok THEN Ok(Vector(r.val)) ELSE r
      [] t.tag \in {"Reference", "MutableReference"} -> Ok(t)
      [] t.tag = "Struct" ->
            LET r == FatStructType_subst(t.s, targs)
            IN  IF r.ok THEN Ok(Struct(r.val)) ELSE r

\* subst that resolves an inserted argument once more when it is a TyParam
FatType_subst_resubstituted(t, targs) ==
    CASE t.tag = "TyParam" ->
            IF t.idx < Len(targs)
            THEN LET a == targs[t.idx + 1]
                 IN  IF a.tag = "TyParam" /\ a.idx < Len(targs)
                     THEN Ok(targs[a.idx + 1])
                     ELSE Ok(a)
            ELSE SubstErr(Len(targs), t.idx)
      [] t.tag \in {"Bool", "U8", "U64", "U128", "Address", "Signer"} -> Ok(t)
      [] t.tag = "Vector" ->
            LET r == FatType_subst(t.elem, targs)
            IN  IF r.ok THEN Ok(Vector(r.val)) ELSE r
      [] t.tag = "Reference" ->
            LET r == FatType_subst(t.elem, targs)
            IN  IF r.ok THEN Ok(Reference(r.val)) ELSE r
      [] t.tag = "MutableReference" ->
            LET r == FatType_subst(t.elem, targs)
            IN  IF r.ok THEN Ok(MutableReference(r.val)) ELSE r
      [] t.tag = "Struct" ->
            LET r == FatStructType_subst(t.s, targs)
            IN  IF r.ok THEN Ok(Struct(r.val)) ELSE r

FatType_subst(t, targs) ==
    CASE t.tag = "TyParam" ->
            \* slices are 0-based, sequences 1-based
            IF t.idx < Len(targs) THEN Ok(targs[t.idx + 1])
            ELSE SubstErr(Len(targs), t.idx)
      [] t.tag \in {"Bool", "U8", "U64", "U128", "Address", "Signer"} -> Ok(t)
      [] t.tag = "Vector" ->
            LET r == FatType_subst(t.elem, targs)
            IN  IF r.ok THEN Ok(Vector(r.val)) ELSE r
      [] t.tag = "Reference" ->
            LET r == FatType_subst(t.elem, targs)
            IN  IF r.ok THEN Ok(Reference(r.val)) ELSE r
      [] t.tag = "MutableReference" ->
            LET r == FatType_subst(t.elem, targs)
            IN  IF r.ok THEN Ok(MutableReference(r.val)) ELSE r
      [] t.tag = "Struct" ->
            LET r == FatStructType_subst(t.s, targs)
            IN  IF r.ok THEN Ok(Struct(r.val)) ELSE r

(***************************************************************************)
(* FatStructType::struct_tag and FatType::type_tag                         *)
(***************************************************************************)
\* type_tag with the references looked through instead of refused
type_tag_through_references(t) ==
    CASE t.tag \in {"Bool", "U8", "U64", "U128", "Address", "Signer"} ->
            Ok(TagLeaf(t.tag))
      [] t.tag \in {"Vector"} ->
            LET r == type_tag(t.elem)
            IN  IF r.ok THEN Ok(TagVector(r.val)) ELSE r
      [] t.tag = "Struct" ->
            LET r == struct_tag(t.s)
            IN  IF r.ok THEN Ok(TagStruct(r.val)) ELSE r
      [] t.tag \in {"Reference", "MutableReference"} -> type_tag(t.elem)
      [] t.tag = "TyParam" ->
            Err(UNKNOWN_INVARIANT_VIOLATION_ERROR, "cannot derive type tag")

\* struct_tag taking the tags of the fields instead of the type arguments
struct_tag_of_layout(s) ==
    LET tags == Collect([i \in 1..Len(s.layout) |-> type_tag(s.layout[i])])
    IN  IF ~tags.ok THEN tags
        ELSE Ok(StructTag(s.address, s.module, s.name, tags.val))

struct_tag(s) ==
    LET tags == Collect([i \in 1..Len(s.ty_args) |-> type_tag(s.ty_args[i])])
    IN  IF ~tags.ok THEN tags
        ELSE Ok(StructTag(s.address, s.module, s.name, tags.val))

type_tag(t) ==
    CASE t.tag \in {"Bool", "U8", "U64", "U128", "Address", "Signer"} ->
            Ok(TagLeaf(t.tag))
      [] t.tag = "Vector" ->
            LET r == type_tag(t.elem)
            IN  IF r.ok THEN Ok(TagVector(r.val)) ELSE r
      [] t.tag = "Struct" ->
            LET r == struct_tag(t.s)
            IN  IF r.ok THEN Ok(TagStruct(r.val)) ELSE r
      [] t.tag \in {"Reference", "MutableReference", "TyParam"} ->
            Err(UNKNOWN_INVARIANT_VIOLATION_ERROR, "cannot derive type tag")

(***************************************************************************)
(* layout_and_kind_info: a pair <<kind info, layout>>                      *)
(***************************************************************************)
\* the struct kind recomputed from the fields: Resource when a field is one
FatStructType_layout_and_kind_info_from_fields(s) ==
    LET rs == Collect([i \in 1..Len(s.layout) |->
                            FatType_layout_and_kind_info(s.layout[i])])
    IN  IF ~rs.ok THEN rs
        ELSE LET field_kinds == [i \in 1..Len(rs.val) |-> rs.val[i][1]]
                 field_layouts == [i \in 1..Len(rs.val) |-> rs.val[i][2]]
             IN  Ok(<< <<IF s.is_resource
                            \/ \E i \in 1..Len(field_kinds) :
                                  MoveKindInfo_kind(field_kinds[i]) = Resource
                         THEN Resource ELSE Copyable,
                         field_kinds>>,
                       MoveStructLayout_new(field_layouts) >>)

FatStructType_layout_and_kind_info(s) ==
    LET rs == Collect([i \in 1..Len(s.layout) |->
                            FatType_layout_and_kind_info(s.layout[i])])
    IN  IF ~rs.ok THEN rs
        ELSE LET field_kinds == [i \in 1..Len(rs.val) |-> rs.val[i][1]]
                 field_layouts == [i \in 1..Len(rs.val) |-> rs.val[i][2]]
             IN  Ok(<< <<IF s.is_resource THEN Resource ELSE Copyable,
                         field_kinds>>,
                       MoveStructLayout_new(field_layouts) >>)

\* a vector classified Copyable whatever it holds
FatType_layout_and_kind_info_vector_copyable(t) ==
    CASE t.tag \in {"Bool", "U8", "U64", "U128", "Address"} ->
            Ok(<<KBase(Copyable), LLeaf(t.tag)>>)
      [] t.tag = "Signer" -> Ok(<<KBase(Resource), LLeaf("Signer")>>)
      [] t.tag = "Vector" ->
            LET r == FatType_layout_and_kind_info(t.elem)
            IN  IF ~r.ok THEN r
                ELSE Ok(<<KVector(Copyable, r.val[1]), LVector(r.val[2])>>)
      [] t.tag = "Struct" ->
            LET r == FatStructType_layout_and_kind_info(t.s)
            IN  IF ~r.ok THEN r
                ELSE Ok(<<KStruct(r.val[1][1], r.val[1][2]), LStruct(r.val[2])>>)
      [] t.tag \in {"Reference", "MutableReference", "TyParam"} ->
            Err(UNKNOWN_INVARIANT_VIOLATION_ERROR, "cannot derive type layout")

FatType_layout_and_kind_info(t) ==
    CASE t.tag \in {"Bool", "U8", "U64", "U128", "Address"} ->
            Ok(<<KBase(Copyable), LLeaf(t.tag)>>)
      [] t.tag = "Signer" -> Ok(<<KBase(Resource), LLeaf("Signer")>>)
      [] t.tag = "Vector" ->
            LET r == FatType_layout_and_kind_info(t.elem)
            IN  IF ~r.ok THEN r
                ELSE Ok(<<KVector(MoveKindInfo_kind(r.val[1]), r.val[1]),
                          LVector(r.val[2])>>)
      [] t.tag = "Struct" ->
            LET r == FatStructType_layout_and_kind_info(t.s)
            IN  IF ~r.ok THEN r
                ELSE Ok(<<KStruct(r.val[1][1], r.val[1][2]), LStruct(r.val[2])>>)
      [] t.tag \in {"Reference", "MutableReference", "TyParam"} ->
            Err(UNKNOWN_INVARIANT_VIOLATION_ERROR, "cannot derive type layout")

(***************************************************************************)
(* FatType::is_resource                                                    *)
(***************************************************************************)
\* is_resource taking every vector for copyable
is_resource_vector_copyable(t) ==
    CASE t.tag \in {"Bool", "U8", "U64", "U128", "Address", "Vector",
                    "Reference", "MutableReference"} -> Ok(FALSE)
      [] t.tag = "Signer" -> Ok(TRUE)
      [] t.tag = "Struct" -> Ok(t.s.is_resource)
      [] t.tag = "TyParam" ->
            Err(UNKNOWN_INVARIANT_VIOLATION_ERROR,
                "cannot check if a type parameter is a resource or not")

\* is_resource answering for the referent of a reference
is_resource_of_referent(t) ==
    CASE t.tag \in {"Bool", "U8", "U64", "U128", "Address"} -> Ok(FALSE)
      [] t.tag = "Signer" -> Ok(TRUE)
      [] t.tag \in {"Vector", "Reference", "MutableReference"} -> is_resource(t.elem)
      [] t.tag = "Struct" -> Ok(t.s.is_resource)
      [] t.tag = "TyParam" ->
            Err(UNKNOWN_INVARIANT_VIOLATION_ERROR,
                "cannot check if a type parameter is a resource or not")

is_resource(t) ==
    CASE t.tag \in {"Bool", "U8", "U64", "U128", "Address",
                    "Reference", "MutableReference"} -> Ok(FALSE)
      [] t.tag = "Signer" -> Ok(TRUE)
      [] t.tag = "Vector" -> is_resource(t.elem)
      [] t.tag = "Struct" -> Ok(t.s.is_resource)
      [] t.tag = "TyParam" ->
            Err(UNKNOWN_INVARIANT_VIOLATION_ERROR,
                "cannot check if a type parameter is a resource or not")

(***************************************************************************)
(* debug_print: the buffer is a sequence of the pieces written so far; a   *)
(* result is Ok(buffer), or an Err that also carries the buffer as the     *)
(* failed call left it.                                                    *)
(***************************************************************************)
PrintErr(buf) ==
    [ok |-> FALSE, status |-> UNKNOWN_INVARIANT_VIOLATION_ERROR,
     message |-> "cannot print out uninstantiated type params", buf |-> buf]

\* the loop `for ty in it`: each remaining argument after a ", "
debug_print_rest(rest, buf) ==
    IF rest = <<>> THEN Ok(buf)
    ELSE LET r == FatType_debug_print(Head(rest), debug_write(buf, ", "))
         IN  IF ~r.ok THEN r ELSE debug_print_rest(Tail(rest), r.val)

FatStructType_debug_print(s, buf) ==
    LET b1 == debug_write(buf, s.module \o "::" \o s.name)
    IN  IF s.ty_args = <<>> THEN Ok(b1)
        ELSE LET r1 == FatType_debug_print(Head(s.ty_args), debug_write(b1, "<"))
             IN  IF ~r1.ok THEN r1
                 ELSE LET r2 == debug_print_rest(Tail(s.ty_args), r1.val)
                      IN  IF ~r2.ok THEN r2 ELSE Ok(debug_write(r2.val, ">"))

FatType_debug_print(t, buf) ==
    CASE t.tag = "Bool" -> Ok(debug_write(buf, "bool"))
      [] t.tag = "U8" -> Ok(debug_write(buf, "u8"))
      [] t.tag = "U64" -> Ok(debug_write(buf, "u64"))
      [] t.tag = "U128" -> Ok(debug_write(buf, "u128"))
      [] t.tag = "Address" -> Ok(debug_write(buf, "address"))
      [] t.tag = "Signer" -> Ok(debug_write(buf, "signer"))
      [] t.tag = "Vector" ->
            LET r == FatType_debug_print(t.elem, debug_write(buf, "vector<"))
            IN  IF ~r.ok THEN r ELSE Ok(debug_write(r.val, ">"))
      [] t.tag = "Struct" -> FatStructType_debug_print(t.s, buf)
      [] t.tag = "Reference" -> FatType_debug_print(t.elem, debug_write(buf, "&"))
      [] t.tag = "MutableReference" ->
            FatType_debug_print(t.elem, debug_write(buf, "&mut "))
      [] t.tag = "TyParam" -> PrintErr(buf)

(***************************************************************************)
(* TryInto<MoveStructLayout> for &FatStructType and                        *)
(* TryInto<MoveTypeLayout> for &FatType                                    *)
(***************************************************************************)
\* the bridge converting a struct's type arguments instead of its fields
FatType_try_into_ty_args(t) ==
    CASE t.tag \in {"Address", "U8", "U64", "U128", "Bool"} -> Ok(LLeaf(t.tag))
      [] t.tag = "Vector" ->
            LET r == FatType_try_into(t.elem)
            IN  IF r.ok THEN Ok(LVector(r.val)) ELSE r
      [] t.tag = "Struct" ->
            LET rs == Collect([i \in 1..Len(t.s.ty_args) |->
                                    FatType_try_into(t.s.ty_args[i])])
            IN  IF ~rs.ok THEN rs ELSE Ok(LStruct(MoveStructLayout_new(rs.val)))
      [] t.tag = "Signer" -> Ok(LLeaf("Signer"))
      [] OTHER -> [ok |-> FALSE, status |-> ABORT_TYPE_MISMATCH_ERROR]

FatStructType_try_into(s) ==
    LET rs == Collect([i \in 1..Len(s.layout) |-> FatType_try_into(s.layout[i])])
    IN  IF ~rs.ok THEN rs ELSE Ok(MoveStructLayout_new(rs.val))

FatType_try_into(t) ==
    CASE t.tag \in {"Address", "U8", "U64", "U128", "Bool"} -> Ok(LLeaf(t.tag))
      [] t.tag = "Vector" ->
            LET r == FatType_try_into(t.elem)
            IN  IF r.ok THEN Ok(LVector(r.val)) ELSE r
      [] t.tag = "Struct" ->
            LET rs == Collect([i \in 1..Len(t.s.layout) |->
                                    FatType_try_into(t.s.layout[i])])
            IN  IF ~rs.ok THEN rs ELSE Ok(LStruct(MoveStructLayout_new(rs.val)))
      [] t.tag = "Signer" -> Ok(LLeaf("Signer"))
      [] OTHER -> [ok |-> FALSE, status |-> ABORT_TYPE_MISMATCH_ERROR]

(***************************************************************************)
(* The types the model builds.  A type is grown bottom-up from a leaf, one *)
(* constructor at a time, as FatType::nested_strategy does; the further    *)
(* entries of a struct's ty_args and layout are drawn from ChildLeaves.    *)
(***************************************************************************)
TyParams == {TyParam(i) : i \in 0..MaxTyParam}

\* struct declarations: address, module, name and the declared flag
StructDecls ==
    { [address |-> 1, module |-> "M", name |-> "Coin", is_resource |-> TRUE],
      [address |-> 2, module |-> "N", name |-> "Box", is_resource |-> FALSE] }

MkStruct(d, targs, layout) ==
    Struct(FatStructType(d.address, d.module, d.name, d.is_resource, targs, layout))

Leaves == Primitives \cup TyParams \cup {MkStruct(d, <<>>, <<>>) : d \in StructDecls}

ChildLeaves == {U64, Signer, TyParam(0)}

NoResult == [ok |-> FALSE, status |-> "NOT_RUN"]

(***************************************************************************)
(* Values of the secure storages (libra_secure_storage::Value) and the     *)
(* storages ValidatorConfig::execute reads and writes.                     *)
(***************************************************************************)
\* a key with nothing stored under it
Absent == [kind |-> "absent"]
\* what an earlier run left under VALIDATOR_CONFIG or OWNER_ACCOUNT
Stale == [kind |-> "stale"]
Value_Ed25519PublicKey(k) == [kind |-> "ed25519_public_key", key |-> k]
Value_String(text) == [kind |-> "string", text |-> text]
Value_Transaction(tx) == [kind |-> "transaction", tx |-> tx]

\* account_address::from_public_key
from_public_key(k) == [address_of |-> k]
\* AccountAddress::to_string and AccountAddress::from_str
to_string(a) == [hex |-> a]
from_str(text) == IF "hex" \in DOMAIN text THEN Ok(text.hex)
                  ELSE [ok |-> FALSE, error |-> "BackendParsingError"]

\* Error of the management tool, with the storage key it names
ToolErr(error, key) == [ok |-> FALSE, error |-> error, key |-> key]

NoLocal ==
    [CONSENSUS_KEY |-> Absent, FULLNODE_NETWORK_KEY |-> Absent,
     VALIDATOR_NETWORK_KEY |-> Absent, OPERATOR_KEY |-> Absent,
     OPERATOR_ACCOUNT |-> Absent, VALIDATOR_CONFIG |-> Absent,
     OWNER_ACCOUNT |-> Absent]

NoRemote == [OWNER_KEY |-> Absent, VALIDATOR_CONFIG |-> Absent]

\* execute is not running
ConfigIdle ==
    /\ pc = "idle"
    /\ backends_remote = "None"
    /\ local = NoLocal
    /\ remote = NoRemote
    /\ owner_account = Absent
    /\ validator_config_script = Absent
    /\ validator_config_tx = Absent
    /\ ret = NoResult

Init ==
    /\ ty \in Leaves
    /\ op = "none"
    /\ ty_args = <<>>
    /\ res = NoResult
    /\ ConfigIdle

Unused == UNCHANGED <<op, ty_args, res>> /\ UNCHANGED config_vars

MkVector(bound) ==
    /\ op = "none" /\ Size(ty) < bound
    /\ ty' = Vector(ty)
    /\ Unused

MkReference(bound) ==
    /\ op = "none" /\ Size(ty) < bound
    /\ ty' = Reference(ty)
    /\ Unused

MkMutableReference(bound) ==
    /\ op = "none" /\ Size(ty) < bound
    /\ ty' = MutableReference(ty)
    /\ Unused

\* a struct whose first field is the type built so far
MkStructWithField(bound) ==
    /\ op = "none" /\ Size(ty) < bound
    /\ \E d \in StructDecls : ty' = MkStruct(d, <<>>, <<ty>>)
    /\ Unused

\* a struct whose first type argument is the type built so far
MkStructWithTyArg(bound) ==
    /\ op = "none" /\ Size(ty) < bound
    /\ \E d \in StructDecls : ty' = MkStruct(d, <<ty>>, <<>>)
    /\ Unused

AddField(bound) ==
    /\ op = "none" /\ Size(ty) < bound
    /\ ty.tag = "Struct" /\ Len(ty.s.layout) < MaxFields
    /\ \E c \in ChildLeaves :
          ty' = Struct([ty.s EXCEPT !.layout = Append(@, c)])
    /\ Unused

AddTyArg(bound) ==
    /\ op = "none" /\ Size(ty) < bound
    /\ ty.tag = "Struct" /\ Len(ty.s.ty_args) < MaxStructTyArgs
    /\ \E c \in ChildLeaves :
          ty' = Struct([ty.s EXCEPT !.ty_args = Append(@, c)])
    /\ Unused

Build(bound) ==
    \/ MkVector(bound)
    \/ MkReference(bound)
    \/ MkMutableReference(bound)
    \/ MkStructWithField(bound)
    \/ MkStructWithTyArg(bound)
    \/ AddField(bound)
    \/ AddTyArg(bound)

(***************************************************************************)
(* The operations, each applied once to the type built.                    *)
(***************************************************************************)
Apply(name, result) ==
    /\ op = "none"
    /\ op' = name
    /\ res' = result
    /\ UNCHANGED <<ty, ty_args>>
    /\ UNCHANGED config_vars

TypeTag == Apply("type_tag", type_tag(ty))

StructTagOp == ty.tag = "Struct" /\ Apply("struct_tag", struct_tag(ty.s))

LayoutAndKindInfo == Apply("layout_and_kind_info", FatType_layout_and_kind_info(ty))

StructLayoutAndKindInfo ==
    /\ ty.tag = "Struct"
    /\ Apply("struct_layout_and_kind_info", FatStructType_layout_and_kind_info(ty.s))

IsResource == Apply("is_resource", is_resource(ty))

DebugPrint == Apply("debug_print", FatType_debug_print(ty, <<>>))

TryInto == Apply("try_into", FatType_try_into(ty))

StructTryInto == ty.tag = "Struct" /\ Apply("struct_try_into", FatStructType_try_into(ty.s))

Next ==
    \/ Build(MaxSize)
    \/ TypeTag
    \/ StructTagOp
    \/ LayoutAndKindInfo
    \/ StructLayoutAndKindInfo
    \/ IsResource
    \/ DebugPrint
    \/ TryInto
    \/ StructTryInto

Spec == Init /\ [][Next]_vars

(***************************************************************************)
(* Substitution: subst applied to the type built, with an argument list.   *)
(***************************************************************************)
ArgTypes == {U64, TyParam(0), Vector(TyParam(1))}

RECURSIVE SeqsUpTo(_, _)
SeqsUpTo(S, n) ==
    IF n = 0 THEN {<<>>}
    ELSE LET shorter == SeqsUpTo(S, n - 1)
         IN  shorter \cup {Append(q, x) : q \in shorter, x \in S}

ArgLists == SeqsUpTo(ArgTypes, MaxArgs)

Subst ==
    /\ op = "none"
    /\ \E a \in ArgLists :
          /\ ty_args' = a
          /\ res' = FatType_subst(ty, a)
    /\ op' = "subst"
    /\ UNCHANGED ty
    /\ UNCHANGED config_vars

StructSubst ==
    /\ op = "none" /\ ty.tag = "Struct"
    /\ \E a \in ArgLists :
          /\ ty_args' = a
          /\ res' = FatStructType_subst(ty.s, a)
    /\ op' = "struct_subst"
    /\ UNCHANGED ty
    /\ UNCHANGED config_vars

NextSubst ==
    \/ Build(MaxSubstSize)
    \/ Subst
    \/ StructSubst

SpecSubst == Init /\ [][NextSubst]_vars

\* subst alone, on smaller types: the composition of two passes is checked
\* against every second argument list in each state
NextCompose ==
    \/ Build(MaxComposeSize)
    \/ Subst

SpecCompose == Init /\ [][NextCompose]_vars

(***************************************************************************)
(* Instantiation: FatStructType::subst applied to the struct built, with a *)
(* list of concrete type arguments.                                        *)
(***************************************************************************)
ConcreteArgTypes == {U64, Signer, Vector(U8)}

ConcreteArgLists == SeqsUpTo(ConcreteArgTypes, MaxArgs)

Instantiate ==
    /\ op = "none" /\ ty.tag = "Struct"
    /\ \E a \in ConcreteArgLists :
          /\ ty_args' = a
          /\ res' = FatStructType_subst(ty.s, a)
    /\ op' = "instantiate"
    /\ UNCHANGED ty
    /\ UNCHANGED config_vars

NextInstantiate ==
    \/ Build(MaxSubstSize)
    \/ Instantiate

SpecInstantiate == Init /\ [][NextInstantiate]_vars

(***************************************************************************)
(* ValidatorConfig::execute, one step per call it makes.  The storages are *)
(* outside the tool: whether one can be opened, and whether a set or a     *)
(* signature succeeds, is the environment's choice; a set that reports an  *)
(* error may or may not have stored the value.                             *)
(***************************************************************************)
StoredKeys(names) == {Absent} \cup {Value_Ed25519PublicKey(n) : n \in names}

InitExecute ==
    /\ ty = Bool /\ op = "none" /\ ty_args = <<>> /\ res = NoResult
    /\ pc = "fetch_owner_account"
    /\ backends_remote \in {"None", "Some"}
    /\ local \in
          [CONSENSUS_KEY : StoredKeys({"consensus"}),
           FULLNODE_NETWORK_KEY : StoredKeys({"fullnode"}),
           VALIDATOR_NETWORK_KEY : StoredKeys({"validator"}),
           OPERATOR_KEY : StoredKeys({"operator"}),
           OPERATOR_ACCOUNT : {Absent, Value_String([junk |-> TRUE]),
                               Value_String(to_string(from_public_key("operator")))},
           VALIDATOR_CONFIG : {Absent, Stale},
           OWNER_ACCOUNT : {Absent, Stale}]
    \* OWNER_KEY is the key under the namespace owner_name
    /\ remote \in
          IF backends_remote = "None" THEN {NoRemote}
          ELSE [OWNER_KEY : StoredKeys({"owner_a", "owner_b"})
                               \cup {Value_String([junk |-> TRUE])},
                VALIDATOR_CONFIG : {Absent, Stale}]
    /\ owner_account = Absent
    /\ validator_config_script = Absent
    /\ validator_config_tx = Absent
    /\ ret = NoResult

\* return Err(e), or a `?` that propagates it
Fail(e) ==
    /\ ret' = e
    /\ pc' = "done"
    /\ UNCHANGED <<backends_remote, local, remote, owner_account,
                   validator_config_script, validator_config_tx>>
    /\ UNCHANGED type_vars

Missing == [ok |-> FALSE, error |-> "RemoteStorageMissing"]
Unavailable(location) == [ok |-> FALSE, error |-> location]

\* let owner_account = self.fetch_owner_account()?;
FetchOwnerAccount ==
    /\ pc = "fetch_owner_account"
    /\ IF backends_remote = "None" THEN Fail(Missing)
       ELSE \E available \in BOOLEAN :
              IF ~available THEN Fail(Unavailable("RemoteStorageUnavailable"))
              ELSE IF remote.OWNER_KEY.kind # "ed25519_public_key"
              THEN Fail(ToolErr("RemoteStorageReadError", "OWNER_KEY"))
              ELSE /\ owner_account' = from_public_key(remote.OWNER_KEY.key)
                   /\ pc' = "create_validator_config_script"
                   /\ UNCHANGED <<backends_remote, local, remote,
                                  validator_config_script, validator_config_tx, ret>>
                   /\ UNCHANGED type_vars

\* ed25519_from_storage / x25519_from_storage: the key is there
HasKey(name) == local[name].kind = "ed25519_public_key"

\* let validator_config_script = self.create_validator_config_script(owner_account)?;
CreateValidatorConfigScript ==
    /\ pc = "create_validator_config_script"
    /\ \E available, fullnode_converts, validator_encodes \in BOOLEAN :
          IF ~available THEN Fail(Unavailable("LocalStorageUnavailable"))
          ELSE IF ~HasKey("CONSENSUS_KEY")
          THEN Fail(ToolErr("LocalStorageReadError", "CONSENSUS_KEY"))
          ELSE IF ~HasKey("FULLNODE_NETWORK_KEY")
          THEN Fail(ToolErr("LocalStorageReadError", "FULLNODE_NETWORK_KEY"))
          ELSE IF ~fullnode_converts THEN Fail(ToolErr("UnexpectedError", "none"))
          ELSE IF ~HasKey("VALIDATOR_NETWORK_KEY")
          THEN Fail(ToolErr("LocalStorageReadError", "VALIDATOR_NETWORK_KEY"))
          ELSE IF ~validator_encodes THEN Fail(ToolErr("UnexpectedError", "none"))
          ELSE /\ validator_config_script' =
                      [kind |-> "script",
                       owner_account |-> owner_account,
                       consensus_key |-> local.CONSENSUS_KEY.key,
                       validator_network_key |-> local.VALIDATOR_NETWORK_KEY.key,
                       fullnode_network_key |-> local.FULLNODE_NETWORK_KEY.key]
               /\ pc' = "create_validator_config_transaction"
               /\ UNCHANGED <<backends_remote, local, remote, owner_account,
                              validator_config_tx, ret>>
               /\ UNCHANGED type_vars

\* let validator_config_tx = self.create_validator_config_transaction(..)?;
CreateValidatorConfigTransaction ==
    /\ pc = "create_validator_config_transaction"
    /\ \E available, signs \in BOOLEAN :
          IF ~available THEN Fail(Unavailable("LocalStorageUnavailable"))
          ELSE IF ~HasKey("OPERATOR_KEY")
          THEN Fail(ToolErr("LocalStorageReadError", "OPERATOR_KEY"))
          ELSE IF local.OPERATOR_ACCOUNT.kind # "string"
          THEN Fail(ToolErr("LocalStorageReadError", "OPERATOR_ACCOUNT"))
          ELSE IF ~from_str(local.OPERATOR_ACCOUNT.text).ok
          THEN Fail(from_str(local.OPERATOR_ACCOUNT.text))
          ELSE IF ~signs THEN Fail(ToolErr("LocalStorageSigningError", "OPERATOR_KEY"))
          ELSE /\ validator_config_tx' =
                      [kind |-> "user_transaction",
                       sender |-> from_str(local.OPERATOR_ACCOUNT.text).val,
                       sequence_number |-> 0,
                       script |-> validator_config_script,
                       public_key |-> local.OPERATOR_KEY.key]
               /\ pc' = "create_local_storage"
               /\ UNCHANGED <<backends_remote, local, remote, owner_account,
                              validator_config_script, ret>>
               /\ UNCHANGED type_vars

\* let mut local_storage = self.backends.local.create_storage(LocalStorage)?;
CreateLocalStorage ==
    /\ pc = "create_local_storage"
    /\ \E available \in BOOLEAN :
          IF ~available THEN Fail(Unavailable("LocalStorageUnavailable"))
          ELSE /\ pc' = "set_local_validator_config"
               /\ UNCHANGED <<backends_remote, local, remote, owner_account,
                              validator_config_script, validator_config_tx, ret>>
               /\ UNCHANGED type_vars

\* a set that reported an error: the value may have been stored all the same
FailedSet(store, key, value) ==
    \E landed \in BOOLEAN : store' = IF landed THEN [store EXCEPT ![key] = value]
                                      ELSE store

\* the same set with its error dropped: execute goes on to the next write
SetLocalValidatorConfig_error_ignored ==
    /\ pc = "set_local_validator_config"
    /\ \E stored \in BOOLEAN :
          IF stored
          THEN local' = [local EXCEPT !.VALIDATOR_CONFIG =
                                        Value_Transaction(validator_config_tx)]
          ELSE FailedSet(local, "VALIDATOR_CONFIG",
                         Value_Transaction(validator_config_tx))
    /\ pc' = "set_local_owner_account"
    /\ UNCHANGED <<backends_remote, remote, owner_account,
                   validator_config_script, validator_config_tx, ret>>
    /\ UNCHANGED type_vars

\* local_storage.set(constants::VALIDATOR_CONFIG, Value::Transaction(..))?
SetLocalValidatorConfig ==
    /\ pc = "set_local_validator_config"
    /\ \E stored \in BOOLEAN :
          IF stored
          THEN /\ local' = [local EXCEPT !.VALIDATOR_CONFIG =
                                            Value_Transaction(validator_config_tx)]
               /\ pc' = "set_local_owner_account"
               /\ UNCHANGED ret
          ELSE /\ FailedSet(local, "VALIDATOR_CONFIG",
                            Value_Transaction(validator_config_tx))
               /\ ret' = ToolErr("LocalStorageWriteError", "VALIDATOR_CONFIG")
               /\ pc' = "done"
    /\ UNCHANGED <<backends_remote, remote, owner_account,
                   validator_config_script, validator_config_tx>>
    /\ UNCHANGED type_vars

\* local_storage.set(OWNER_ACCOUNT, Value::String(owner_account.to_string()))?
SetLocalOwnerAccount ==
    /\ pc = "set_local_owner_account"
    /\ \E stored \in BOOLEAN :
          IF stored
          THEN /\ local' = [local EXCEPT !.OWNER_ACCOUNT =
                                            Value_String(to_string(owner_account))]
               /\ pc' = "upload_validator_config"
               /\ UNCHANGED ret
          ELSE /\ FailedSet(local, "OWNER_ACCOUNT",
                            Value_String(to_string(owner_account)))
               /\ ret' = ToolErr("LocalStorageWriteError", "OWNER_ACCOUNT")
               /\ pc' = "done"
    /\ UNCHANGED <<backends_remote, remote, owner_account,
                   validator_config_script, validator_config_tx>>
    /\ UNCHANGED type_vars

\* match self.backends.remote { .. remote_storage.set(..)? .. }; Ok(tx)
UploadValidatorConfig ==
    /\ pc = "upload_validator_config"
    /\ IF backends_remote = "None" THEN Fail(Missing)
       ELSE \E available, stored \in BOOLEAN :
              IF ~available THEN Fail(Unavailable("RemoteStorageUnavailable"))
              ELSE /\ IF stored
                      THEN /\ remote' = [remote EXCEPT !.VALIDATOR_CONFIG =
                                            Value_Transaction(validator_config_tx)]
                           /\ ret' = Ok(validator_config_tx)
                      ELSE /\ FailedSet(remote, "VALIDATOR_CONFIG",
                                        Value_Transaction(validator_config_tx))
                           /\ ret' = ToolErr("RemoteStorageWriteError",
                                             "VALIDATOR_CONFIG")
                   /\ pc' = "done"
                   /\ UNCHANGED <<backends_remote, local, owner_account,
                                  validator_config_script, validator_config_tx>>
                   /\ UNCHANGED type_vars

NextExecute ==
    \/ FetchOwnerAccount
    \/ CreateValidatorConfigScript
    \/ CreateValidatorConfigTransaction
    \/ CreateLocalStorage
    \/ SetLocalValidatorConfig
    \/ SetLocalOwnerAccount
    \/ UploadValidatorConfig

SpecExecute == InitExecute /\ [][NextExecute]_vars

(***************************************************************************)
(* Predicates on types used to state the properties.                       *)
(***************************************************************************)
RECURSIVE Unresolved(_)
RECURSIVE TagUnresolved(_)
RECURSIVE ParamUnderVectors(_)
RECURSIVE ParamPrinted(_)
RECURSIVE HasNonConcrete(_)

IsNonConcreteNode(t) == t.tag \in {"TyParam", "Reference", "MutableReference"}

\* t is, or holds inside a vector or inside a struct field (at any depth),
\* a TyParam, a Reference or a MutableReference
Unresolved(t) ==
    \/ IsNonConcreteNode(t)
    \/ t.tag = "Vector" /\ Unresolved(t.elem)
    \/ t.tag = "Struct" /\ \E i \in 1..Len(t.s.layout) : Unresolved(t.s.layout[i])

\* the same, through vectors and struct type arguments instead of fields
TagUnresolved(t) ==
    \/ IsNonConcreteNode(t)
    \/ t.tag = "Vector" /\ TagUnresolved(t.elem)
    \/ t.tag = "Struct" /\ \E i \in 1..Len(t.s.ty_args) : TagUnresolved(t.s.ty_args[i])

\* t is a TyParam under zero or more Vector wrappers
ParamUnderVectors(t) ==
    \/ t.tag = "TyParam"
    \/ t.tag = "Vector" /\ ParamUnderVectors(t.elem)

\* a TyParam sits where debug_print descends: vector elements, referents and
\* struct type arguments
ParamPrinted(t) ==
    \/ t.tag = "TyParam"
    \/ t.tag \in {"Vector", "Reference", "MutableReference"} /\ ParamPrinted(t.elem)
    \/ t.tag = "Struct" /\ \E i \in 1..Len(t.s.ty_args) : ParamPrinted(t.s.ty_args[i])

\* a TyParam, Reference or MutableReference occurs anywhere in t
HasNonConcrete(t) ==
    \/ IsNonConcreteNode(t)
    \/ t.tag = "Vector" /\ HasNonConcrete(t.elem)
    \/ t.tag = "Struct" /\
          \/ \E i \in 1..Len(t.s.ty_args) : HasNonConcrete(t.s.ty_args[i])
          \/ \E i \in 1..Len(t.s.layout) : HasNonConcrete(t.s.layout[i])

Concrete(t) == ~HasNonConcrete(t)

InvariantViolation(r) ==
    /\ ~r.ok
    /\ r.status = UNKNOWN_INVARIANT_VIOLATION_ERROR
    /\ "val" \notin DOMAIN r

CanonicalOps == {"type_tag", "layout_and_kind_info", "is_resource", "debug_print"}

(***************************************************************************)
(* C1                                                                      *)
(***************************************************************************)
\* C1 as stated: on every type that is, or holds inside a vector or a struct
\* field, a TyParam, Reference or MutableReference, each of type_tag,
\* layout_and_kind_info, is_resource and debug_print fails with
\* UNKNOWN_INVARIANT_VIOLATION_ERROR.
C1_AllFourFailOnUnresolved ==
    (op \in CanonicalOps /\ Unresolved(ty)) => InvariantViolation(res)

\* C1 amended: layout_and_kind_info fails exactly on those types; type_tag
\* fails exactly when such a node is the type itself or sits under vectors and
\* struct type arguments (fields are not read); is_resource fails exactly on a
\* TyParam under zero or more vectors; debug_print fails exactly when a TyParam
\* sits under vectors, references and struct type arguments.  Every failure of
\* the four is UNKNOWN_INVARIANT_VIOLATION_ERROR and carries no value.
C1_FailureOnUnresolved ==
    /\ op = "layout_and_kind_info" => (~res.ok <=> Unresolved(ty))
    /\ op = "type_tag" => (~res.ok <=> TagUnresolved(ty))
    /\ op = "is_resource" => (~res.ok <=> ParamUnderVectors(ty))
    /\ op = "debug_print" => (~res.ok <=> ParamPrinted(ty))
    /\ (op \in CanonicalOps /\ ~res.ok) => InvariantViolation(res)

\* a reference inside a vector inside a struct field makes the layout fail
C1_Witness ==
    /\ op = "layout_and_kind_info"
    /\ ty.tag = "Struct"
    /\ Len(ty.s.layout) > 0
    /\ ty.s.layout[1].tag = "Vector"
    /\ ty.s.layout[1].elem.tag = "Reference"
    /\ InvariantViolation(res)

(***************************************************************************)
(* C2                                                                      *)
(***************************************************************************)
\* C2: the layout bridge fails exactly when layout_and_kind_info fails, and a
\* failure of the bridge is UNKNOWN_INVARIANT_VIOLATION_ERROR like every other
\* failure of the core.
C2_BridgeSameFailure ==
    /\ op = "try_into" =>
          /\ res.ok <=> FatType_layout_and_kind_info(ty).ok
          /\ ~res.ok => res.status = UNKNOWN_INVARIANT_VIOLATION_ERROR
    /\ op = "struct_try_into" =>
          /\ res.ok <=> FatStructType_layout_and_kind_info(ty.s).ok
          /\ ~res.ok => res.status = UNKNOWN_INVARIANT_VIOLATION_ERROR

(***************************************************************************)
(* C3                                                                      *)
(***************************************************************************)
\* C3: on every concrete type the layout of layout_and_kind_info and the layout
\* of the bridge are the same value, for FatType and for FatStructType.
C3_LayoutsAgree ==
    /\ (op = "try_into" /\ Concrete(ty)) =>
          LET full == FatType_layout_and_kind_info(ty)
          IN  res.ok /\ full.ok /\ res.val = full.val[2]
    /\ (op = "struct_try_into" /\ Concrete(ty)) =>
          LET full == FatStructType_layout_and_kind_info(ty.s)
          IN  res.ok /\ full.ok /\ res.val = full.val[2]

\* the bridge has converted a concrete struct with a vector field and a signer
C3_Witness ==
    /\ op = "try_into"
    /\ Concrete(ty)
    /\ ty.tag = "Struct"
    /\ Len(ty.s.layout) = 2
    /\ ty.s.layout[1].tag = "Vector"
    /\ ty.s.layout[2] = Signer
    /\ res.ok
    /\ res.val = LStruct(MoveStructLayout_new(
                    <<LVector(LLeaf(ty.s.layout[1].elem.tag)), LLeaf("Signer")>>))

(***************************************************************************)
(* C4                                                                      *)
(***************************************************************************)
RECURSIVE HasParamAtLeast(_, _)
\* a TyParam(i) with i >= n occurs somewhere in t: at the top, in a vector
\* element, in a referent, in a struct type argument or in a struct field
HasParamAtLeast(t, n) ==
    \/ t.tag = "TyParam" /\ t.idx >= n
    \/ t.tag \in {"Vector", "Reference", "MutableReference"} /\ HasParamAtLeast(t.elem, n)
    \/ t.tag = "Struct" /\
          \/ \E i \in 1..Len(t.s.ty_args) : HasParamAtLeast(t.s.ty_args[i], n)
          \/ \E i \in 1..Len(t.s.layout) : HasParamAtLeast(t.s.layout[i], n)

HasTyParam(t) == HasParamAtLeast(t, 0)

\* C4: subst fails exactly when the input holds, at any position, a TyParam(i)
\* with i >= the length of the argument list; the failure is
\* UNKNOWN_INVARIANT_VIOLATION_ERROR and returns no type.
C4_SubstFailsIffOutOfRange ==
    (op \in {"subst", "struct_subst"}) =>
        /\ ~res.ok <=> HasParamAtLeast(ty, Len(ty_args))
        /\ ~res.ok => InvariantViolation(res)

\* subst has failed on an out-of-range parameter behind a reference in a field
C4_Witness ==
    /\ op = "subst"
    /\ ty.tag = "Struct"
    /\ Len(ty.s.layout) = 1
    /\ ty.s.layout[1] = Reference(TyParam(1))
    /\ ty_args = <<U64>>
    /\ InvariantViolation(res)
    /\ res.idx = 1 /\ res.len = 1

(***************************************************************************)
(* C5                                                                      *)
(***************************************************************************)
RECURSIVE Mirrors(_, _, _)
\* r has the shape of t with each TyParam(i) replaced by targs[i] itself
Mirrors(t, r, targs) ==
    CASE t.tag = "TyParam" -> t.idx < Len(targs) /\ r = targs[t.idx + 1]
      [] t.tag \in {"Vector", "Reference", "MutableReference"} ->
            r.tag = t.tag /\ Mirrors(t.elem, r.elem, targs)
      [] t.tag = "Struct" ->
            /\ r.tag = "Struct"
            /\ r.s.address = t.s.address
            /\ r.s.module = t.s.module
            /\ r.s.name = t.s.name
            /\ r.s.is_resource = t.s.is_resource
            /\ Len(r.s.ty_args) = Len(t.s.ty_args)
            /\ Len(r.s.layout) = Len(t.s.layout)
            /\ \A i \in 1..Len(t.s.ty_args) :
                  Mirrors(t.s.ty_args[i], r.s.ty_args[i], targs)
            /\ \A i \in 1..Len(t.s.layout) :
                  Mirrors(t.s.layout[i], r.s.layout[i], targs)
      [] OTHER -> r = t

\* C5: a successful subst changes only TyParam nodes, each into a verbatim copy
\* of its argument; a type with no TyParam comes back identical, whatever the
\* argument list.
C5_SubstMirrorsInput ==
    /\ (op = "subst" /\ res.ok) => Mirrors(ty, res.val, ty_args)
    /\ (op = "struct_subst" /\ res.ok) => Mirrors(ty, Struct(res.val), ty_args)
    /\ (op = "subst" /\ ~HasTyParam(ty)) => res = Ok(ty)
    /\ (op = "struct_subst" /\ ~HasTyParam(ty)) => res = Ok(ty.s)

\* TyParam(0) in a type argument and in a field became a copy of an argument
\* that itself names TyParam(1), which was left alone
C5_Witness ==
    /\ op = "subst"
    /\ ty.tag = "Struct"
    /\ ty.s.ty_args = <<TyParam(0)>>
    /\ ty.s.layout = <<TyParam(0)>>
    /\ ty_args = <<Vector(TyParam(1)), U64>>
    /\ res.ok
    /\ res.val.s.ty_args = <<Vector(TyParam(1))>>
    /\ res.val.s.layout = <<Vector(TyParam(1))>>
    /\ res.val.s.name = ty.s.name
    /\ res.val.s.is_resource = ty.s.is_resource

(***************************************************************************)
(* C6                                                                      *)
(***************************************************************************)
\* the combined argument list [subst(a, b) for a in a_list]
Combined(a_list, b_list) ==
    Collect([i \in 1..Len(a_list) |-> FatType_subst(a_list[i], b_list)])

\* C6: when a first pass with A leaves no TyParam, a second pass with any B
\* succeeds and gives what one pass with the combined list gives, whenever the
\* combined list can be built.
C6_SubstComposes ==
    (op = "subst" /\ res.ok /\ ~HasTyParam(res.val)) =>
        \A b \in ArgLists :
            LET comb == Combined(ty_args, b)
                two == FatType_subst(res.val, b)
            IN  comb.ok =>
                    /\ two.ok
                    /\ FatType_subst(ty, comb.val) = two

\* a first pass resolved a generic struct; a second argument list rewrites the
\* unused argument, so the combined list differs from the first one
C6_Witness ==
    /\ op = "subst"
    /\ ty.tag = "Struct"
    /\ ty.s.layout = <<TyParam(0)>>
    /\ ty_args = <<U64, TyParam(0)>>
    /\ res.ok
    /\ ~HasTyParam(res.val)
    /\ \E b \in ArgLists :
          /\ Combined(ty_args, b).ok
          /\ Combined(ty_args, b).val # ty_args
          /\ FatType_subst(res.val, b) = FatType_subst(ty, Combined(ty_args, b).val)

(***************************************************************************)
(* C7                                                                      *)
(***************************************************************************)
\* field lists, and flags, a descriptor with the same address, module, name
\* and type arguments may have instead
AltLayouts == {<<>>, <<TyParam(0)>>, <<Reference(U64), Signer>>}

Redeclared(s, layout, flag) == [s EXCEPT !.layout = layout, !.is_resource = flag]

\* C7: the tag of a struct is its address, module and name with the tags of its
\* type arguments; descriptors that agree on those four get the same result from
\* struct_tag and from type_tag, whatever their fields and is_resource flag.
C7_TagIgnoresFields ==
    /\ op = "struct_tag" =>
          /\ \A l \in AltLayouts, f \in BOOLEAN :
                struct_tag(Redeclared(ty.s, l, f)) = res
          /\ res.ok =>
                /\ res.val.address = ty.s.address
                /\ res.val.module = ty.s.module
                /\ res.val.name = ty.s.name
                /\ Len(res.val.type_params) = Len(ty.s.ty_args)
                /\ \A i \in 1..Len(ty.s.ty_args) :
                      Ok(res.val.type_params[i]) = type_tag(ty.s.ty_args[i])
    /\ (op = "type_tag" /\ ty.tag = "Struct") =>
          \A l \in AltLayouts, f \in BOOLEAN :
              type_tag(Struct(Redeclared(ty.s, l, f))) = res

\* the tag of Coin<u64> was derived although its field is a TyParam
C7_Witness ==
    /\ op = "struct_tag"
    /\ ty.s.ty_args = <<U64>>
    /\ ty.s.layout = <<TyParam(0)>>
    /\ ty.s.is_resource
    /\ res = Ok(StructTag(1, "M", "Coin", <<TagLeaf("U64")>>))

(***************************************************************************)
(* C8                                                                      *)
(***************************************************************************)
\* C8: for a struct whose fields are all concrete, layout_and_kind_info gives
\* the struct kind Resource exactly when is_resource is declared, and one kind
\* and one layout per field, in field order, each derived from that field alone.
C8_StructKindFollowsFlag ==
    (op = "struct_layout_and_kind_info"
        /\ \A j \in 1..Len(ty.s.layout) : Concrete(ty.s.layout[j])) =>
        /\ res.ok
        /\ res.val[1][1] \in {Resource, Copyable}
        /\ res.val[1][1] = Resource <=> ty.s.is_resource
        /\ Len(res.val[1][2]) = Len(ty.s.layout)
        /\ Len(res.val[2].fields) = Len(ty.s.layout)
        /\ \A j \in 1..Len(ty.s.layout) :
              LET f == FatType_layout_and_kind_info(ty.s.layout[j])
              IN  /\ f.ok
                  /\ res.val[1][2][j] = f.val[1]
                  /\ res.val[2].fields[j] = f.val[2]

\* a resource struct with only copyable fields: Resource, with Copyable fields
C8_Witness ==
    /\ op = "struct_layout_and_kind_info"
    /\ ty.s.is_resource
    /\ ty.s.layout = <<Vector(U8), U64>>
    /\ res = Ok(<< <<Resource, <<KVector(Copyable, KBase(Copyable)), KBase(Copyable)>> >>,
                   MoveStructLayout_new(<<LVector(LLeaf("U8")), LLeaf("U64")>>) >>)

(***************************************************************************)
(* C9                                                                      *)
(***************************************************************************)
RECURSIVE StripVectors(_)
\* the type under zero or more Vector wrappers
StripVectors(t) == IF t.tag = "Vector" THEN StripVectors(t.elem) ELSE t

\* C9: is_resource is false for Bool, U8, U64, U128, Address and for references
\* whatever the referent; true for Signer; the declared flag for a struct
\* whatever its fields and type arguments; the element's answer for a vector;
\* and it fails, with UNKNOWN_INVARIANT_VIOLATION_ERROR, exactly on a TyParam
\* under zero or more vectors.
C9_IsResourceTable ==
    op = "is_resource" =>
        LET core == StripVectors(ty)
        IN  /\ core.tag \in {"Bool", "U8", "U64", "U128", "Address",
                             "Reference", "MutableReference"} => res = Ok(FALSE)
            /\ core.tag = "Signer" => res = Ok(TRUE)
            /\ core.tag = "Struct" => res = Ok(core.s.is_resource)
            /\ core.tag = "TyParam" => InvariantViolation(res)
            /\ ~res.ok <=> core.tag = "TyParam"
            /\ ty.tag = "Vector" => res = is_resource(ty.elem)

\* is_resource answered from the flag of a struct whose type argument is a
\* reference and whose field is a TyParam
C9_Witness ==
    /\ op = "is_resource"
    /\ ty.tag = "Struct"
    /\ ty.s.ty_args = <<Reference(Signer)>>
    /\ ty.s.layout = <<TyParam(0)>>
    /\ ~ty.s.is_resource
    /\ res = Ok(FALSE)

(***************************************************************************)
(* C10                                                                     *)
(***************************************************************************)
\* the kind the type under the vectors has at its top level
DeclaredKind(t) ==
    CASE t.tag = "Signer" -> Resource
      [] t.tag = "Struct" -> IF t.s.is_resource THEN Resource ELSE Copyable
      [] OTHER -> Copyable

\* C10: the top-level kind of a vector, at any nesting depth, over a concrete
\* type is the top-level kind of that type, and the layout of the vector is the
\* layout of its element wrapped in a vector.
C10_VectorKindPropagates ==
    (op = "layout_and_kind_info" /\ ty.tag = "Vector" /\ Concrete(ty)) =>
        LET e == FatType_layout_and_kind_info(ty.elem)
        IN  /\ res.ok /\ e.ok
            /\ res.val[1].tag = "Vector"
            /\ res.val[1].kind = DeclaredKind(StripVectors(ty))
            /\ res.val[1].kind = e.val[1].kind
            /\ res.val[1].inner = e.val[1]
            /\ res.val[2] = LVector(e.val[2])

\* a vector of vectors of a resource struct is Resource
C10_Witness ==
    /\ op = "layout_and_kind_info"
    /\ ty.tag = "Vector"
    /\ ty.elem.tag = "Vector"
    /\ ty.elem.elem.tag = "Struct"
    /\ ty.elem.elem.s.is_resource
    /\ ty.elem.elem.s.layout = <<U64>>
    /\ res.ok
    /\ res.val[1].kind = Resource
    /\ res.val[1].inner.kind = Resource
    /\ res.val[2] = LVector(LVector(LStruct(MoveStructLayout_new(<<LLeaf("U64")>>))))

(***************************************************************************)
(* C11                                                                     *)
(***************************************************************************)
RECURSIVE HasReference(_)
\* a Reference or MutableReference occurs anywhere in t
HasReference(t) ==
    \/ t.tag \in {"Reference", "MutableReference"}
    \/ t.tag = "Vector" /\ HasReference(t.elem)
    \/ t.tag = "Struct" /\
          \/ \E i \in 1..Len(t.s.ty_args) : HasReference(t.s.ty_args[i])
          \/ \E i \in 1..Len(t.s.layout) : HasReference(t.s.layout[i])

\* C11: a struct descriptor with no reference in it, substituted with concrete
\* arguments that cover every TyParam index it uses, comes out with no TyParam;
\* type_tag, layout_and_kind_info, is_resource, debug_print and the bridge all
\* succeed on the result; its tag is address, module and name with the tags of
\* the substituted type arguments; its layout has one entry per substituted
\* field; its struct-level kind follows the declared flag.
C11_InstantiatedIsCanonical ==
    (/\ op = "instantiate"
     /\ ~HasReference(ty)
     /\ \A i \in 1..Len(ty_args) : Concrete(ty_args[i])
     /\ ~HasParamAtLeast(ty, Len(ty_args))) =>
        /\ res.ok
        /\ LET inst == res.val
               tag == struct_tag(inst)
               full == FatStructType_layout_and_kind_info(inst)
           IN  /\ ~HasTyParam(Struct(inst))
               /\ type_tag(Struct(inst)).ok
               /\ tag.ok
               /\ tag.val.address = ty.s.address
               /\ tag.val.module = ty.s.module
               /\ tag.val.name = ty.s.name
               /\ Len(tag.val.type_params) = Len(ty.s.ty_args)
               /\ \A i \in 1..Len(inst.ty_args) :
                     Ok(tag.val.type_params[i]) = type_tag(inst.ty_args[i])
               /\ FatType_layout_and_kind_info(Struct(inst)).ok
               /\ full.ok
               /\ Len(full.val[2].fields) = Len(ty.s.layout)
               /\ Len(full.val[1][2]) = Len(ty.s.layout)
               /\ full.val[1][1] = (IF ty.s.is_resource THEN Resource ELSE Copyable)
               /\ is_resource(Struct(inst)) = Ok(ty.s.is_resource)
               /\ FatType_debug_print(Struct(inst), <<>>).ok
               /\ FatType_try_into(Struct(inst)).ok
               /\ FatStructType_try_into(inst).ok

\* Coin<T> with the one field T, instantiated with [U64]
C11_Witness ==
    /\ op = "instantiate"
    /\ ty.s.name = "Coin" /\ ty.s.is_resource
    /\ ty.s.ty_args = <<TyParam(0)>>
    /\ ty.s.layout = <<TyParam(0)>>
    /\ ty_args = <<U64>>
    /\ res.ok
    /\ res.val.ty_args = <<U64>>
    /\ res.val.layout = <<U64>>
    /\ struct_tag(res.val) = Ok(StructTag(1, "M", "Coin", <<TagLeaf("U64")>>))
    /\ FatStructType_layout_and_kind_info(res.val) =
          Ok(<< <<Resource, <<KBase(Copyable)>> >>,
                MoveStructLayout_new(<<LLeaf("U64")>>) >>)

(***************************************************************************)
(* C12                                                                     *)
(***************************************************************************)
\* C12: on every type on which layout_and_kind_info succeeds, is_resource
\* succeeds too, and is true exactly when the top-level kind is Resource.
C12_ClassifierAgrees ==
    /\ (op = "layout_and_kind_info" /\ res.ok) =>
          is_resource(ty) = Ok(res.val[1].kind = Resource)
    /\ (op = "is_resource" /\ FatType_layout_and_kind_info(ty).ok) =>
          /\ res.ok
          /\ res.val <=> FatType_layout_and_kind_info(ty).val[1].kind = Resource

\* both agree that a vector of a resource struct with a copyable field is a
\* resource
C12_Witness ==
    /\ op = "layout_and_kind_info"
    /\ ty.tag = "Vector"
    /\ ty.elem.tag = "Struct"
    /\ ty.elem.s.is_resource
    /\ ty.elem.s.layout = <<U64>>
    /\ res.ok
    /\ res.val[1].kind = Resource
    /\ res.val[1].inner.fields = <<KBase(Copyable)>>
    /\ is_resource(ty) = Ok(TRUE)

\* a value execute stored: the storages start with none of them
Written(value) == value.kind \notin {"absent", "stale"}

NothingWritten ==
    /\ ~Written(local.VALIDATOR_CONFIG)
    /\ ~Written(local.OWNER_ACCOUNT)
    /\ ~Written(remote.VALIDATOR_CONFIG)

LocalConfigStored == local.VALIDATOR_CONFIG = Value_Transaction(validator_config_tx)

LocalOwnerStored == local.OWNER_ACCOUNT = Value_String(to_string(owner_account))

\* C13: execute writes local VALIDATOR_CONFIG, then local OWNER_ACCOUNT, then
\* remote VALIDATOR_CONFIG, and stops at the first failing step: with no remote
\* backend it returns RemoteStorageMissing and nothing is ever written; a
\* failed step returns its error with the earlier writes kept and no later
\* write made; and on Ok(tx) both VALIDATOR_CONFIG entries hold that tx and
\* local OWNER_ACCOUNT holds the address derived from the remote owner key.
C13_WritesInOrder ==
    /\ Written(local.OWNER_ACCOUNT) => LocalConfigStored
    /\ Written(remote.VALIDATOR_CONFIG) => LocalConfigStored /\ LocalOwnerStored
    /\ backends_remote = "None" =>
          /\ NothingWritten
          /\ pc = "done" => ret = Missing
    /\ (pc = "done" /\ ~ret.ok) =>
          IF ret = ToolErr("LocalStorageWriteError", "VALIDATOR_CONFIG")
          THEN ~Written(local.OWNER_ACCOUNT) /\ ~Written(remote.VALIDATOR_CONFIG)
          ELSE IF ret = ToolErr("LocalStorageWriteError", "OWNER_ACCOUNT")
          THEN LocalConfigStored /\ ~Written(remote.VALIDATOR_CONFIG)
          ELSE IF ret = ToolErr("RemoteStorageWriteError", "VALIDATOR_CONFIG")
          THEN LocalConfigStored /\ LocalOwnerStored
          \* the remote storage could not be opened for the upload
          ELSE IF ret = Unavailable("RemoteStorageUnavailable")
                  /\ owner_account # Absent
          THEN LocalConfigStored /\ LocalOwnerStored
                 /\ ~Written(remote.VALIDATOR_CONFIG)
          ELSE NothingWritten
    /\ (pc = "done" /\ ret.ok) =>
          /\ ret.val = validator_config_tx
          /\ local.VALIDATOR_CONFIG = Value_Transaction(ret.val)
          /\ remote.VALIDATOR_CONFIG = Value_Transaction(ret.val)
          /\ remote.OWNER_KEY.kind = "ed25519_public_key"
          /\ local.OWNER_ACCOUNT =
                Value_String(to_string(from_public_key(remote.OWNER_KEY.key)))

\* the OWNER_ACCOUNT write failed: the config is stored locally, nothing remotely
C13_Witness ==
    /\ pc = "done"
    /\ ret = ToolErr("LocalStorageWriteError", "OWNER_ACCOUNT")
    /\ local.VALIDATOR_CONFIG = Value_Transaction(validator_config_tx)
    /\ validator_config_tx.kind = "user_transaction"
    /\ remote.VALIDATOR_CONFIG = Stale

====
